---- MODULE Spec2Model ----
(***************************************************************************)
(* Trigger emulator of rusEFI (firmware/controllers/trigger/               *)
(* trigger_emulator_algo.cpp): the RPM/frequency controller, the lifecycle *)
(* of the simulated trigger signal, the reconciliation of the trigger      *)
(* waveform with the PWM state, and the per-tick dispatch of edges.        *)
(*                                                                         *)
(* Two contexts run: the control path (console commands, configuration     *)
(* callbacks) and the timer callback of the PWM generator.  The timer      *)
(* callback runs at interrupt priority: it may fire between two statements *)
(* of a control operation, and runs to completion once it has fired.       *)
(* Control operations are therefore split at the statements between which  *)
(* a tick can observe a difference; the tick is one action.                *)
(***************************************************************************)
EXTENDS Integers, Sequences, FiniteSets

\* ------------------------------------------------------------------ bounds
\* the trigger shape is rebuilt at most this many times in a run
MaxVersion == 1
\* the global configuration version is followed up to this value
MaxGlobalVersion == 2

\* the longest phase table the edge detector is explored on
MaxPhases == 3

\* ------------------------------------------------------- program constants
\* channels of one PWM waveform
PWM_PHASE_MAX_WAVE_PER_PWM == 3
SYMMETRICAL_CRANK_SENSOR_DIVIDER == 2 * 2
SYMMETRICAL_THREE_TIMES_CRANK_SENSOR_DIVIDER == 3 * 2
SYMMETRICAL_TWELVE_TIMES_CRANK_SENSOR_DIVIDER == 12 * 2

\* operation_mode_e
OperationModes ==
    {"FOUR_STROKE_CRANK_SENSOR", "FOUR_STROKE_CAM_SENSOR", "TWO_STROKE",
     "FOUR_STROKE_SYMMETRICAL_CRANK_SENSOR", "FOUR_STROKE_THREE_TIMES_CRANK_SENSOR",
     "FOUR_STROKE_TWELVE_TIMES_CRANK_SENSOR"}

\* the values of the rpm argument and of triggerSimulatorRpm that are explored
RpmValues == {0 - 90, 0, 3000, 6000}

\* ------------------------------------------------------------- float values
\* A float is NaN or the exact rational num/den (den > 0) in lowest terms, so
\* that two floats of one value are one record.
NAN == [isNaN |-> TRUE, num |-> 0, den |-> 1]

RECURSIVE GCD(_, _)
GCD(a, b) == IF b = 0 THEN a ELSE GCD(b, a % b)

Float(n, d) ==
    LET g == GCD(IF n < 0 THEN 0 - n ELSE n, d)
    IN [isNaN |-> FALSE, num |-> n \div g, den |-> d \div g]
FloatEq(a, b) == \/ a.isNaN /\ b.isNaN
                 \/ ~a.isNaN /\ ~b.isNaN /\ a.num * b.den = b.num * a.den
FloatPositive(a) == ~a.isNaN /\ a.num > 0
FloatNegative(a) == ~a.isNaN /\ a.num < 0

\* ------------------------------------------------------------ the waveforms
\* A waveform is a sequence of phases, each the levels (0 low, 1 high) of the
\* PWM_PHASE_MAX_WAVE_PER_PWM channels; phaseCount is its length.
Wave1 == << <<0, 0, 0>> >>
Wave2 == << <<0, 0, 1>>, <<1, 0, 0>> >>
Wave4 == << <<0, 0, 0>>, <<1, 0, 0>>, <<1, 1, 0>>, <<0, 1, 0>> >>
Waveforms == {Wave1, Wave2, Wave4}

phaseCount(mcss) == Len(mcss)
getChannelState(mcss, channelIndex, phaseIndex) == mcss[phaseIndex + 1][channelIndex + 1]

Channels == 0 .. (PWM_PHASE_MAX_WAVE_PER_PWM - 1)

VARIABLES
    triggerShape,              \* engine->triggerCentral.triggerShape: [version, wave]
    triggerEmulatorSignal,     \* the PwmConfig: [frequency, wave, phaseIndex, periodNt, armed]
    atTriggerVersion,
    hasStimPins,
    hasInitTriggerEmulator,
    directSelfStimulation,     \* engine->triggerCentral.directSelfStimulation
    triggerSimulatorRpm,       \* engineConfiguration->triggerSimulatorRpm
    operationMode,             \* getEngineRotationState()->getOperationMode()
    invertPrimaryTriggerSignal,
    invertSecondaryTriggerSignal,
    triggerSimulatorPins,      \* the channels whose configured pin is valid
    globalConfigurationVersion,
    initCount,                 \* weComplexInit calls since the last disableTriggerStimulator
    pc,                        \* the control operation in progress, "idle" when none
    call,                      \* what the last control operation did
    lastTick                   \* what the last timer callback did

vars == <<triggerShape, triggerEmulatorSignal, atTriggerVersion, hasStimPins,
          hasInitTriggerEmulator, directSelfStimulation, triggerSimulatorRpm,
          operationMode, invertPrimaryTriggerSignal, invertSecondaryTriggerSignal,
          triggerSimulatorPins, globalConfigurationVersion, initCount, pc, call, lastTick>>

\* ------------------------------------------------------------ edge detector
\* getPreviousIndex without the wrap from phase 0 to the last phase
getPreviousIndex_NoWrap(currentIndex, size) ==
    IF currentIndex = 0 THEN 0 ELSE currentIndex - 1

\* getPreviousIndex stepping forwards
getPreviousIndex_Next(currentIndex, size) == (currentIndex + 1) % size

getPreviousIndex(currentIndex, size) == (currentIndex + size - 1) % size

needEvent(currentIndex, mcss, channelIndex) ==
    LET prevIndex == getPreviousIndex(currentIndex, phaseCount(mcss))
        previousValue == getChannelState(mcss, channelIndex, prevIndex)
        currentValue == getChannelState(mcss, channelIndex, currentIndex)
    IN previousValue # currentValue


\* ------------------------------------------------------- emulator dispatcher
\* handleEmulatorCallback with the primary invert flag applied to every channel
handleEmulatorCallback_InvertAll(multiChannelStateSequence, stateIndex) ==
    { <<i, ((getChannelState(multiChannelStateSequence, i, stateIndex) = 1)
              # invertPrimaryTriggerSignal)
             # (i = 1 /\ invertSecondaryTriggerSignal)>> :
        i \in { c \in Channels : needEvent(stateIndex, multiChannelStateSequence, c) } }

\* TriggerEmulatorHelper::handleEmulatorCallback: the handleShaftSignal calls of
\* one tick, each <<channel, isRise>>
handleEmulatorCallback(multiChannelStateSequence, stateIndex) ==
    { <<i, ((getChannelState(multiChannelStateSequence, i, stateIndex) = 1)
              # (i = 0 /\ invertPrimaryTriggerSignal))
             # (i = 1 /\ invertSecondaryTriggerSignal)>> :
        i \in { c \in Channels : needEvent(stateIndex, multiChannelStateSequence, c) } }

\* applyPinState of the PWM generator: every output is driven to the level the
\* waveform holds at stateIndex
applyPinState(stateIndex, state) ==
    [i \in Channels |-> getChannelState(state.wave, i, stateIndex)]

NoLevels == [i \in Channels |-> 0]

\* emulatorApplyPinState forwarding the edges in either run mode
emulatorApplyPinState_ForwardAlways(stateIndex, state) ==
    IF directSelfStimulation
    THEN [sink |-> "shaft", forwarded |-> TRUE, written |-> FALSE,
          events |-> handleEmulatorCallback(state.wave, stateIndex),
          levels |-> NoLevels]
    ELSE IF hasStimPins
    THEN [sink |-> "pins", forwarded |-> TRUE, written |-> TRUE,
          events |-> handleEmulatorCallback(state.wave, stateIndex),
          levels |-> applyPinState(stateIndex, state)]
    ELSE [sink |-> "none", forwarded |-> TRUE, written |-> FALSE,
          events |-> handleEmulatorCallback(state.wave, stateIndex),
          levels |-> NoLevels]

\* emulatorApplyPinState with the pin branch not chained by else: the pins are
\* written in self-stimulation too
emulatorApplyPinState_NoElse(stateIndex, state) ==
    [sink |-> IF directSelfStimulation THEN "shaft"
              ELSE IF hasStimPins THEN "pins" ELSE "none",
     forwarded |-> directSelfStimulation,
     written |-> hasStimPins,
     events |-> IF directSelfStimulation
                THEN handleEmulatorCallback(state.wave, stateIndex) ELSE {},
     levels |-> IF hasStimPins THEN applyPinState(stateIndex, state) ELSE NoLevels]

\* what one call of the pwm_gen_callback does: the sink it routes to, the events
\* handed to the shaft position input (forwarded: handleEmulatorCallback was
\* called), the levels written to the output pins (written: applyPinState was
\* called)
emulatorApplyPinState(stateIndex, state) ==
    IF directSelfStimulation
    THEN [sink |-> "shaft", forwarded |-> TRUE, written |-> FALSE,
          events |-> handleEmulatorCallback(state.wave, stateIndex),
          levels |-> NoLevels]
    ELSE IF hasStimPins
    THEN [sink |-> "pins", forwarded |-> FALSE, written |-> TRUE,
          events |-> {}, levels |-> applyPinState(stateIndex, state)]
    ELSE [sink |-> "none", forwarded |-> FALSE, written |-> FALSE,
          events |-> {}, levels |-> NoLevels]

\* ------------------------------------------------- RPM/frequency controller
\* getRpmMultiplier with the cam sensor's 0.5 written as the integer quotient 1 / 2
getRpmMultiplier_IntegerHalf(mode) ==
    IF mode = "FOUR_STROKE_THREE_TIMES_CRANK_SENSOR"
    THEN Float(SYMMETRICAL_THREE_TIMES_CRANK_SENSOR_DIVIDER \div 2, 1)
    ELSE IF mode = "FOUR_STROKE_SYMMETRICAL_CRANK_SENSOR"
    THEN Float(SYMMETRICAL_CRANK_SENSOR_DIVIDER \div 2, 1)
    ELSE IF mode = "FOUR_STROKE_TWELVE_TIMES_CRANK_SENSOR"
    THEN Float(SYMMETRICAL_TWELVE_TIMES_CRANK_SENSOR_DIVIDER \div 2, 1)
    ELSE IF mode = "FOUR_STROKE_CAM_SENSOR"
    THEN Float(1 \div 2, 1)
    ELSE Float(1, 1)

getRpmMultiplier(mode) ==
    IF mode = "FOUR_STROKE_THREE_TIMES_CRANK_SENSOR"
    THEN Float(SYMMETRICAL_THREE_TIMES_CRANK_SENSOR_DIVIDER \div 2, 1)
    ELSE IF mode = "FOUR_STROKE_SYMMETRICAL_CRANK_SENSOR"
    THEN Float(SYMMETRICAL_CRANK_SENSOR_DIVIDER \div 2, 1)
    ELSE IF mode = "FOUR_STROKE_TWELVE_TIMES_CRANK_SENSOR"
    THEN Float(SYMMETRICAL_TWELVE_TIMES_CRANK_SENSOR_DIVIDER \div 2, 1)
    ELSE IF mode = "FOUR_STROKE_CAM_SENSOR"
    THEN Float(1, 2)
    ELSE IF mode = "FOUR_STROKE_CRANK_SENSOR"
    THEN Float(1, 1)
    ELSE Float(1, 1)

\* PwmConfig::setFrequency
setFrequency(state, frequency) == [state EXCEPT !.frequency = frequency]

\* rPerSecond without the rpm == 0 case: the frequency 0 in place of NAN
rPerSecond_NoNaN(rpm) ==
    LET rpmM == getRpmMultiplier(operationMode)
    IN Float(rpm * rpmM.num, rpmM.den * 60)

\* rPerSecond with the division by 60 done on the integer rpm
rPerSecond_Truncated(rpm) ==
    IF rpm = 0
    THEN NAN
    ELSE LET rpmM == getRpmMultiplier(operationMode)
         IN Float((rpm \div 60) * rpmM.num, rpmM.den)

\* the argument of setFrequency in setTriggerEmulatorRPM(rpm)
rPerSecond(rpm) ==
    IF rpm = 0
    THEN NAN
    ELSE LET rpmM == getRpmMultiplier(operationMode)
         IN Float(rpm * rpmM.num, rpmM.den * 60)

\* setTriggerEmulatorRPM on the PwmConfig; the store to triggerSimulatorRpm is
\* in the actions that call it
setTriggerEmulatorRPM(state, rpm) == setFrequency(state, rPerSecond(rpm))

\* ------------------------------------------------------- waveform scheduler
\* copyPwmParameters: the PWM state adopts the waveform; the phase index is
\* brought into its range
copyPwmParameters(state, wave) ==
    [state EXCEPT !.wave = wave, !.phaseIndex = state.phaseIndex % phaseCount(wave)]

\* updateTriggerWaveformIfNeeded without the copyPwmParameters call
updateTriggerWaveformIfNeeded_NoCopy(state) ==
    IF atTriggerVersion < triggerShape.version
    THEN [at |-> triggerShape.version,
          state |-> [state EXCEPT !.periodNt = 0 - 1],
          updated |-> TRUE]
    ELSE [at |-> atTriggerVersion, state |-> state, updated |-> FALSE]

\* updateTriggerWaveformIfNeeded without the reset of safe.periodNt
updateTriggerWaveformIfNeeded_KeepPeriod(state) ==
    IF atTriggerVersion < triggerShape.version
    THEN [at |-> triggerShape.version,
          state |-> copyPwmParameters(state, triggerShape.wave),
          updated |-> TRUE]
    ELSE [at |-> atTriggerVersion, state |-> state, updated |-> FALSE]

\* the pwm_cycle_callback: [at |-> atTriggerVersion, state |-> the PwmConfig,
\* updated |-> whether the shape was taken over]
updateTriggerWaveformIfNeeded(state) ==
    IF atTriggerVersion < triggerShape.version
    THEN [at |-> triggerShape.version,
          state |-> [copyPwmParameters(state, triggerShape.wave) EXCEPT !.periodNt = 0 - 1],
          updated |-> TRUE]
    ELSE [at |-> atTriggerVersion, state |-> state, updated |-> FALSE]

\* PwmConfig::weComplexInit: adopt the waveform, start at phase 0, arm the timer
weComplexInit(state, wave) ==
    [copyPwmParameters(state, wave) EXCEPT !.phaseIndex = 0, !.periodNt = 0 - 1,
                                            !.armed = TRUE]

\* PwmConfig::stop
stop(state) == [state EXCEPT !.armed = FALSE]

\* the period of a frequency, in microseconds
periodOf(frequency) == (1000000 * frequency.den) \div frequency.num


\* ---------------------------------------------------------------- lifecycle
\* startSimulatedTriggerSignal with the guard keyed on "already in self-stimulation"
startSimulatedTriggerSignal_PerMode(state) ==
    IF hasInitTriggerEmulator /\ directSelfStimulation
    THEN [state |-> state, started |-> FALSE]
    ELSE [state |-> weComplexInit(setTriggerEmulatorRPM(state, triggerSimulatorRpm),
                                  triggerShape.wave),
          started |-> TRUE]

\* startSimulatedTriggerSignal without its guard
startSimulatedTriggerSignal_Always(state) ==
    [state |-> weComplexInit(setTriggerEmulatorRPM(state, triggerSimulatorRpm),
                             triggerShape.wave),
     started |-> TRUE]

\* startSimulatedTriggerSignal without the setTriggerEmulatorRPM call
startSimulatedTriggerSignal_NoFrequency(state) ==
    IF hasInitTriggerEmulator
    THEN [state |-> state, started |-> FALSE]
    ELSE [state |-> weComplexInit(state, triggerShape.wave), started |-> TRUE]

\* startSimulatedTriggerSignal: [state |-> the PwmConfig, started |-> whether
\* the frequency was applied and the scheduler initialised]
startSimulatedTriggerSignal(state) ==
    IF hasInitTriggerEmulator
    THEN [state |-> state, started |-> FALSE]
    ELSE [state |-> weComplexInit(setTriggerEmulatorRPM(state, triggerSimulatorRpm),
                                  triggerShape.wave),
          started |-> TRUE]

\* onConfigurationChangeRpmEmulatorCallback without its comparison
onConfigurationChangeRpmEmulatorCallback_Always(state, previousRpm) ==
    setTriggerEmulatorRPM(state, triggerSimulatorRpm)

\* onConfigurationChangeRpmEmulatorCallback applying the previous RPM
onConfigurationChangeRpmEmulatorCallback_Previous(state, previousRpm) ==
    IF triggerSimulatorRpm = previousRpm
    THEN state
    ELSE setTriggerEmulatorRPM(state, previousRpm)

\* onConfigurationChangeRpmEmulatorCallback on the PwmConfig
onConfigurationChangeRpmEmulatorCallback(state, previousRpm) ==
    IF triggerSimulatorRpm = previousRpm
    THEN state
    ELSE setTriggerEmulatorRPM(state, triggerSimulatorRpm)

\* ------------------------------------------------------------- observations
\* call: the control operation entered last, and what it did
\*   wasInit, wasSelf  hasInitTriggerEmulator, directSelfStimulation on entry
\*   started           startSimulatedTriggerSignal applied the frequency and
\*                     initialised the scheduler
\*   restarted         ... and the phase index it reset was not 0
\*   arg               the rpm argument
\*   same              the configured rpm equalled the previous configuration's
\*   rpmM              the multiplier read, NAN when none was
\*   timingKept        the PwmConfig and atTriggerVersion were left as they were
\*   inc               the increase of the global configuration version
\*   incArg            the incGlobalConfiguration argument
\*   applied           a frequency has been applied, in this operation or before
\*   misreported       a configuration change notification, this one or one
\*                     before, came with a previous RPM other than the one the
\*                     configuration held before it was written
NoCall == [op |-> "none", done |-> TRUE, wasInit |-> FALSE, wasSelf |-> FALSE,
           started |-> FALSE, restarted |-> FALSE, arg |-> 0, same |-> FALSE,
           rpmM |-> NAN, timingKept |-> TRUE, inc |-> 0, incArg |-> FALSE,
           applied |-> FALSE, misreported |-> FALSE]

\* no control operation, after the ones that have been
Outside == [NoCall EXCEPT !.applied = call.applied, !.misreported = call.misreported]

\* lastTick: what the last timer callback since the last scheduler start did
\*   stale        atTriggerVersion differed from the shape's version on entry
\*   updated      the pwm_cycle_callback took the shape over
\*   caught       atTriggerVersion equalled the shape's version after it
\*   adopted      the PwmConfig held the shape's waveform after it
\*   invalidated  safe.periodNt was -1 after it
\*   wrapped      the phase index on entry was outside the shape's waveform
\*   index        the index handed to the pwm_gen_callback, -1 when none was
\*   count        the phaseCount of the shape's waveform
\*   sink, events, levels, forwarded, written   what the pwm_gen_callback did
\*   n            the ticks that advanced since the scheduler start, 2 for more
\*   entry        the phase index the tick found
\*   wave, self, pins, invertPrimary, invertSecondary   what the
\*                pwm_gen_callback read: the waveform, directSelfStimulation,
\*                hasStimPins and the two invert flags
NoTick == [fired |-> FALSE, stale |-> FALSE, updated |-> FALSE, caught |-> TRUE,
           adopted |-> TRUE, invalidated |-> FALSE, wrapped |-> FALSE,
           index |-> 0 - 1, count |-> 0, sink |-> "none", events |-> {},
           levels |-> NoLevels, n |-> 0, forwarded |-> FALSE, written |-> FALSE,
           entry |-> 0,
           wave |-> <<>>, self |-> FALSE, pins |-> FALSE,
           invertPrimary |-> FALSE, invertSecondary |-> FALSE]

\* a control operation that has just begun
Entered(op) == [Outside EXCEPT !.op = op, !.done = FALSE,
                              !.wasInit = hasInitTriggerEmulator,
                              !.wasSelf = directSelfStimulation]

TimingKept == /\ triggerEmulatorSignal' = triggerEmulatorSignal
              /\ atTriggerVersion' = atTriggerVersion

\* the multiplier a call of setTriggerEmulatorRPM(rpm) reads
MultiplierRead(rpm) == IF rpm = 0 THEN NAN ELSE getRpmMultiplier(operationMode)

Config == <<operationMode, invertPrimaryTriggerSignal, invertSecondaryTriggerSignal,
            triggerSimulatorPins>>

Init ==
    /\ triggerShape \in [version : {0}, wave : Waveforms]
    /\ triggerEmulatorSignal = [frequency |-> NAN, wave |-> <<>>, phaseIndex |-> 0,
                                periodNt |-> 0, armed |-> FALSE]
    /\ atTriggerVersion = 0
    /\ hasStimPins = FALSE
    /\ hasInitTriggerEmulator = FALSE
    /\ directSelfStimulation = FALSE
    /\ triggerSimulatorRpm \in RpmValues
    /\ operationMode = "FOUR_STROKE_CRANK_SENSOR"
    /\ invertPrimaryTriggerSignal = FALSE
    /\ invertSecondaryTriggerSignal = FALSE
    /\ triggerSimulatorPins = {}
    /\ globalConfigurationVersion = 0
    /\ initCount = 0
    /\ pc = "idle"
    /\ call = NoCall
    /\ lastTick = NoTick

\* ------------------------------------------------------ control operations
\* the console command: setTriggerEmulatorRPM(rpm)
SetRpm(rpm) ==
    /\ pc = "idle"
    /\ triggerSimulatorRpm' = rpm
    /\ triggerEmulatorSignal' = setTriggerEmulatorRPM(triggerEmulatorSignal, rpm)
    /\ UNCHANGED <<triggerShape, atTriggerVersion, hasStimPins, hasInitTriggerEmulator,
                   directSelfStimulation, Config, globalConfigurationVersion,
                   initCount, pc, lastTick>>
    /\ call' = [Entered("setTriggerEmulatorRPM") EXCEPT
                    !.done = TRUE, !.arg = rpm, !.rpmM = MultiplierRead(rpm),
                    !.timingKept = TimingKept, !.applied = TRUE]

OnConfigurationChange(previousRpm) ==
    /\ pc = "idle"
    /\ triggerEmulatorSignal' =
           onConfigurationChangeRpmEmulatorCallback(triggerEmulatorSignal, previousRpm)
    /\ UNCHANGED <<triggerShape, atTriggerVersion, hasStimPins, hasInitTriggerEmulator,
                   directSelfStimulation, triggerSimulatorRpm, Config,
                   globalConfigurationVersion, initCount, pc, lastTick>>
    /\ call' = [Entered("onConfigurationChange") EXCEPT
                    !.done = TRUE, !.arg = previousRpm,
                    !.same = (triggerSimulatorRpm = previousRpm),
                    !.rpmM = IF triggerSimulatorRpm = previousRpm THEN NAN
                             ELSE MultiplierRead(triggerSimulatorRpm),
                    !.timingKept = TimingKept,
                    !.inc = globalConfigurationVersion' - globalConfigurationVersion,
                    !.applied = call.applied \/ triggerSimulatorRpm # previousRpm]

\* the first statement of an enable operation: startSimulatedTriggerSignal()
Start(op) ==
    LET r == startSimulatedTriggerSignal(triggerEmulatorSignal)
    IN /\ triggerEmulatorSignal' = r.state
       /\ hasInitTriggerEmulator' = TRUE
       /\ initCount' = IF r.started THEN initCount + 1 ELSE initCount
       /\ lastTick' = IF r.started THEN NoTick ELSE lastTick
       /\ call' = [Entered(op) EXCEPT
                       !.started = r.started,
                       !.restarted = r.started /\ triggerEmulatorSignal.phaseIndex # 0,
                       !.rpmM = IF r.started THEN MultiplierRead(triggerSimulatorRpm)
                                ELSE NAN,
                       !.timingKept = TimingKept,
                       !.applied = call.applied \/ r.started]

\* enableTriggerStimulator(incGlobalConfiguration), up to the return of
\* startSimulatedTriggerSignal
enableTriggerStimulator(incGlobalConfiguration) ==
    /\ pc = "idle"
    /\ incGlobalConfiguration => globalConfigurationVersion < MaxGlobalVersion
    /\ UNCHANGED <<triggerShape, atTriggerVersion, hasStimPins, directSelfStimulation,
                   triggerSimulatorRpm, Config, globalConfigurationVersion>>
    /\ Start("enableTriggerStimulator")
    /\ pc' = IF incGlobalConfiguration THEN "enableSelfInc" ELSE "enableSelf"

\* the rest of enableTriggerStimulator with the version incremented whatever
\* incGlobalConfiguration is
enableTriggerStimulatorReturn_AlwaysInc ==
    /\ pc \in {"enableSelf", "enableSelfInc"}
    /\ directSelfStimulation' = TRUE
    /\ globalConfigurationVersion' = globalConfigurationVersion + 1
    /\ call' = [call EXCEPT !.done = TRUE,
                            !.inc = globalConfigurationVersion' - globalConfigurationVersion,
                            !.incArg = (pc = "enableSelfInc")]
    /\ pc' = "idle"
    /\ UNCHANGED <<triggerShape, triggerEmulatorSignal, atTriggerVersion, hasStimPins,
                   hasInitTriggerEmulator, triggerSimulatorRpm, Config, initCount,
                   lastTick>>

\* ... and the rest of it
enableTriggerStimulatorReturn ==
    /\ pc \in {"enableSelf", "enableSelfInc"}
    /\ directSelfStimulation' = TRUE
    /\ globalConfigurationVersion' =
           IF pc = "enableSelfInc" THEN globalConfigurationVersion + 1
           ELSE globalConfigurationVersion
    /\ call' = [call EXCEPT !.done = TRUE,
                            !.inc = globalConfigurationVersion' - globalConfigurationVersion,
                            !.incArg = (pc = "enableSelfInc")]
    /\ pc' = "idle"
    /\ UNCHANGED <<triggerShape, triggerEmulatorSignal, atTriggerVersion, hasStimPins,
                   hasInitTriggerEmulator, triggerSimulatorRpm, Config, initCount,
                   lastTick>>

\* enableExternalTriggerStimulator, up to the return of startSimulatedTriggerSignal
enableExternalTriggerStimulator ==
    /\ pc = "idle"
    /\ globalConfigurationVersion < MaxGlobalVersion
    /\ UNCHANGED <<triggerShape, atTriggerVersion, hasStimPins, directSelfStimulation,
                   triggerSimulatorRpm, Config, globalConfigurationVersion>>
    /\ Start("enableExternalTriggerStimulator")
    /\ pc' = "enableExternal"

\* ... and the rest of it
enableExternalTriggerStimulatorReturn ==
    /\ pc = "enableExternal"
    /\ directSelfStimulation' = FALSE
    /\ globalConfigurationVersion' = globalConfigurationVersion + 1
    /\ call' = [call EXCEPT !.done = TRUE,
                            !.inc = globalConfigurationVersion' - globalConfigurationVersion]
    /\ pc' = "idle"
    /\ UNCHANGED <<triggerShape, triggerEmulatorSignal, atTriggerVersion, hasStimPins,
                   hasInitTriggerEmulator, triggerSimulatorRpm, Config, initCount,
                   lastTick>>

\* disableTriggerStimulator, its first statement
disableTriggerStimulator ==
    /\ pc = "idle"
    /\ globalConfigurationVersion < MaxGlobalVersion
    /\ directSelfStimulation' = FALSE
    /\ call' = Entered("disableTriggerStimulator")
    /\ pc' = "disable"
    /\ UNCHANGED <<triggerShape, triggerEmulatorSignal, atTriggerVersion, hasStimPins,
                   hasInitTriggerEmulator, triggerSimulatorRpm, Config,
                   globalConfigurationVersion, initCount, lastTick>>

\* the rest of disableTriggerStimulator without triggerEmulatorSignal.stop()
disableTriggerStimulatorReturn_NoStop ==
    /\ pc = "disable"
    /\ hasInitTriggerEmulator' = FALSE
    /\ globalConfigurationVersion' = globalConfigurationVersion + 1
    /\ initCount' = 0
    /\ lastTick' = NoTick
    /\ call' = [call EXCEPT !.done = TRUE,
                            !.inc = globalConfigurationVersion' - globalConfigurationVersion]
    /\ pc' = "idle"
    /\ UNCHANGED <<triggerShape, triggerEmulatorSignal, atTriggerVersion, hasStimPins,
                   directSelfStimulation, triggerSimulatorRpm, Config>>

\* ... and the rest of it
disableTriggerStimulatorReturn ==
    /\ pc = "disable"
    /\ triggerEmulatorSignal' = stop(triggerEmulatorSignal)
    /\ hasInitTriggerEmulator' = FALSE
    /\ globalConfigurationVersion' = globalConfigurationVersion + 1
    /\ initCount' = 0
    /\ lastTick' = NoTick
    /\ call' = [call EXCEPT !.done = TRUE,
                            !.inc = globalConfigurationVersion' - globalConfigurationVersion]
    /\ pc' = "idle"
    /\ UNCHANGED <<triggerShape, atTriggerVersion, hasStimPins, directSelfStimulation,
                   triggerSimulatorRpm, Config>>

\* startTriggerEmulatorPins without the reset of hasStimPins on entry
startTriggerEmulatorPins_NoReset ==
    /\ pc = "idle"
    /\ hasStimPins' = hasStimPins
    /\ pc' = "startPins"
    /\ call' = Entered("startTriggerEmulatorPins")
    /\ UNCHANGED <<triggerShape, triggerEmulatorSignal, atTriggerVersion,
                   hasInitTriggerEmulator, directSelfStimulation, triggerSimulatorRpm,
                   Config, globalConfigurationVersion, initCount, lastTick>>

\* startTriggerEmulatorPins, its first statement: hasStimPins is cleared
startTriggerEmulatorPins ==
    /\ pc = "idle"
    /\ hasStimPins' = FALSE
    /\ pc' = "startPins"
    /\ call' = Entered("startTriggerEmulatorPins")
    /\ UNCHANGED <<triggerShape, triggerEmulatorSignal, atTriggerVersion,
                   hasInitTriggerEmulator, directSelfStimulation, triggerSimulatorRpm,
                   Config, globalConfigurationVersion, initCount, lastTick>>

\* ... and its loop: hasStimPins is set when a channel of triggerSimulatorPins
\* holds a valid pin, and left as it is otherwise
startTriggerEmulatorPinsReturn ==
    /\ pc = "startPins"
    /\ hasStimPins' = (hasStimPins \/ \E i \in Channels : i \in triggerSimulatorPins)
    /\ pc' = "idle"
    /\ call' = [call EXCEPT !.done = TRUE]
    /\ UNCHANGED <<triggerShape, triggerEmulatorSignal, atTriggerVersion,
                   hasInitTriggerEmulator, directSelfStimulation, triggerSimulatorRpm,
                   Config, globalConfigurationVersion, initCount, lastTick>>

\* ------------------------------------------------------------ collaborators
\* the configuration is written from outside (tuning software, a loaded preset)
LoadConfiguration(rpm) ==
    /\ pc = "idle"
    /\ triggerSimulatorRpm' = rpm
    /\ call' = Outside
    /\ UNCHANGED <<triggerShape, triggerEmulatorSignal, atTriggerVersion, hasStimPins,
                   hasInitTriggerEmulator, directSelfStimulation, Config,
                   globalConfigurationVersion, initCount, pc, lastTick>>

SetOperationMode(mode) ==
    /\ pc = "idle"
    /\ operationMode' = mode
    /\ call' = Outside
    /\ UNCHANGED <<triggerShape, triggerEmulatorSignal, atTriggerVersion, hasStimPins,
                   hasInitTriggerEmulator, directSelfStimulation, triggerSimulatorRpm,
                   invertPrimaryTriggerSignal, invertSecondaryTriggerSignal,
                   triggerSimulatorPins, globalConfigurationVersion, initCount, pc,
                   lastTick>>

SetChannelConfiguration(invertPrimary, invertSecondary, pins) ==
    /\ pc = "idle"
    /\ invertPrimaryTriggerSignal' = invertPrimary
    /\ invertSecondaryTriggerSignal' = invertSecondary
    /\ triggerSimulatorPins' = pins
    /\ call' = Outside
    /\ UNCHANGED <<triggerShape, triggerEmulatorSignal, atTriggerVersion, hasStimPins,
                   hasInitTriggerEmulator, directSelfStimulation, triggerSimulatorRpm,
                   operationMode, globalConfigurationVersion, initCount, pc, lastTick>>

\* a configuration change, first half: the configuration is written from
\* outside, the notification is pending; arg keeps the RPM it held before
WriteConfiguration(rpm) ==
    /\ pc = "idle"
    /\ triggerSimulatorRpm' = rpm
    /\ pc' = "configurationChange"
    /\ call' = [Entered("onConfigurationChange") EXCEPT !.arg = triggerSimulatorRpm]
    /\ UNCHANGED <<triggerShape, triggerEmulatorSignal, atTriggerVersion, hasStimPins,
                   hasInitTriggerEmulator, directSelfStimulation, Config,
                   globalConfigurationVersion, initCount, lastTick>>

\* a configuration change, second half: onConfigurationChangeRpmEmulatorCallback
\* is called with the previous configuration the caller hands over
NotifyConfigurationChange(previousRpm) ==
    /\ pc = "configurationChange"
    /\ triggerEmulatorSignal' =
           onConfigurationChangeRpmEmulatorCallback(triggerEmulatorSignal, previousRpm)
    /\ pc' = "idle"
    /\ UNCHANGED <<triggerShape, atTriggerVersion, hasStimPins, hasInitTriggerEmulator,
                   directSelfStimulation, triggerSimulatorRpm, Config,
                   globalConfigurationVersion, initCount, lastTick>>
    /\ call' = [call EXCEPT
                    !.done = TRUE,
                    !.same = (triggerSimulatorRpm = previousRpm),
                    !.rpmM = IF triggerSimulatorRpm = previousRpm THEN NAN
                             ELSE MultiplierRead(triggerSimulatorRpm),
                    !.timingKept = TimingKept,
                    !.applied = call.applied \/ triggerSimulatorRpm # previousRpm,
                    !.misreported = call.misreported \/ previousRpm # call.arg]

\* the trigger shape is rebuilt: a new waveform under the next version
TableSwap(wave) ==
    /\ pc = "idle"
    /\ triggerShape.version < MaxVersion
    /\ triggerShape' = [version |-> triggerShape.version + 1, wave |-> wave]
    /\ UNCHANGED <<triggerEmulatorSignal, atTriggerVersion, hasStimPins,
                   hasInitTriggerEmulator, directSelfStimulation, triggerSimulatorRpm,
                   Config, globalConfigurationVersion, initCount, pc, call, lastTick>>

\* --------------------------------------------------------------- the tick
\* the scheduler stays where it is while the frequency is undefined or not positive
isPaused(frequency) == frequency.isNaN \/ frequency.num <= 0

\* the phase index advancing whether the scheduler is paused or not
nextPhaseIndex_Always(state) == (state.phaseIndex + 1) % phaseCount(state.wave)

\* the phase index a tick leaves: the one it found while paused, the next one
\* of the cycle otherwise
nextPhaseIndex(state) ==
    IF isPaused(state.frequency)
    THEN state.phaseIndex
    ELSE (state.phaseIndex + 1) % phaseCount(state.wave)

\* PwmConfig::togglePwmState, the timer callback: reconcile with the trigger
\* shape, stay where it is while the frequency is undefined or not positive,
\* otherwise advance the phase index and hand it to the pwm_gen_callback
togglePwmState ==
    /\ triggerEmulatorSignal.armed
    /\ LET r == updateTriggerWaveformIfNeeded(triggerEmulatorSignal)
           state == r.state
           paused == isPaused(state.frequency)
           newIndex == nextPhaseIndex(state)
           out == emulatorApplyPinState(newIndex, state)
           seen == [NoTick EXCEPT
                       !.fired = TRUE,
                       !.stale = (atTriggerVersion # triggerShape.version),
                       !.updated = r.updated,
                       !.caught = (r.at = triggerShape.version),
                       !.adopted = (state.wave = triggerShape.wave),
                       !.invalidated = (state.periodNt = 0 - 1),
                       !.wrapped = (triggerEmulatorSignal.phaseIndex
                                        >= phaseCount(triggerShape.wave)),
                       !.count = phaseCount(triggerShape.wave),
                       !.n = lastTick.n,
                       !.entry = triggerEmulatorSignal.phaseIndex]
       IN /\ atTriggerVersion' = r.at
          /\ IF paused
             THEN /\ triggerEmulatorSignal' = [state EXCEPT !.phaseIndex = newIndex]
                  /\ lastTick' = seen
             ELSE /\ triggerEmulatorSignal' =
                         [state EXCEPT !.phaseIndex = newIndex,
                                       !.periodNt = periodOf(state.frequency)]
                  /\ lastTick' = [seen EXCEPT
                                     !.index = newIndex, !.sink = out.sink,
                                     !.events = out.events, !.levels = out.levels,
                                     !.forwarded = out.forwarded,
                                     !.written = out.written,
                                     !.wave = state.wave,
                                     !.self = directSelfStimulation,
                                     !.pins = hasStimPins,
                                     !.invertPrimary = invertPrimaryTriggerSignal,
                                     !.invertSecondary = invertSecondaryTriggerSignal,
                                     !.n = IF lastTick.n < 2 THEN lastTick.n + 1 ELSE 2]
    /\ UNCHANGED <<triggerShape, hasStimPins, hasInitTriggerEmulator,
                   directSelfStimulation, triggerSimulatorRpm, Config,
                   globalConfigurationVersion, initCount, pc, call>>

PinSets == {{}, {0}}

\* the speeds the scheduling specification explores: paused and running
SchedulerRpmValues == {0, 3000}

\* Lifecycle and scheduling: the control operations, the configuration written
\* from outside and its callback, the tick and the rebuilt trigger shape, in
\* one operation mode and without channel inversion.
Next ==
    \/ \E rpm \in SchedulerRpmValues : SetRpm(rpm)
    \/ \E rpm \in SchedulerRpmValues : LoadConfiguration(rpm)
    \/ \E previousRpm \in SchedulerRpmValues : OnConfigurationChange(previousRpm)
    \/ \E incGlobalConfiguration \in BOOLEAN : enableTriggerStimulator(incGlobalConfiguration)
    \/ enableTriggerStimulatorReturn
    \/ enableExternalTriggerStimulator
    \/ enableExternalTriggerStimulatorReturn
    \/ disableTriggerStimulator
    \/ disableTriggerStimulatorReturn
    \/ startTriggerEmulatorPins
    \/ startTriggerEmulatorPinsReturn
    \/ \E pins \in PinSets : SetChannelConfiguration(FALSE, FALSE, pins)
    \/ \E wave \in Waveforms : TableSwap(wave)
    \/ togglePwmState

Spec == Init /\ [][Next]_vars

\* The frequency controller: every operation that applies or could apply a
\* frequency, in every operation mode.  The tick reads the frequency and never
\* writes it, so it is left to the scheduling specification.
NextFrequency ==
    \/ \E rpm \in RpmValues : SetRpm(rpm)
    \/ \E previousRpm \in RpmValues : OnConfigurationChange(previousRpm)
    \/ \E rpm \in RpmValues : LoadConfiguration(rpm)
    \/ \E mode \in OperationModes : SetOperationMode(mode)
    \/ \E incGlobalConfiguration \in BOOLEAN : enableTriggerStimulator(incGlobalConfiguration)
    \/ enableTriggerStimulatorReturn
    \/ enableExternalTriggerStimulator
    \/ enableExternalTriggerStimulatorReturn
    \/ disableTriggerStimulator
    \/ disableTriggerStimulatorReturn

SpecFrequency == Init /\ [][NextFrequency]_vars

\* The dispatcher: the tick under every setting of the two invert flags and of
\* the pin bindings, in both run modes, at the speed the configuration holds.
NextDispatch ==
    \/ enableTriggerStimulator(FALSE)
    \/ enableTriggerStimulatorReturn
    \/ enableExternalTriggerStimulator
    \/ enableExternalTriggerStimulatorReturn
    \/ disableTriggerStimulator
    \/ disableTriggerStimulatorReturn
    \/ startTriggerEmulatorPins
    \/ startTriggerEmulatorPinsReturn
    \/ \E invertPrimary \in BOOLEAN, invertSecondary \in BOOLEAN, pins \in PinSets :
          SetChannelConfiguration(invertPrimary, invertSecondary, pins)
    \/ togglePwmState

SpecDispatch == Init /\ [][NextDispatch]_vars

\* The configured RPM against the frequency: every control operation, a
\* configuration change being the write from outside followed by the
\* notification, with any previous RPM handed over.
NextConfiguration ==
    \/ \E rpm \in RpmValues : SetRpm(rpm)
    \/ \E rpm \in RpmValues : WriteConfiguration(rpm)
    \/ \E previousRpm \in RpmValues : NotifyConfigurationChange(previousRpm)
    \/ \E incGlobalConfiguration \in BOOLEAN : enableTriggerStimulator(incGlobalConfiguration)
    \/ enableTriggerStimulatorReturn
    \/ enableExternalTriggerStimulator
    \/ enableExternalTriggerStimulatorReturn
    \/ disableTriggerStimulator
    \/ disableTriggerStimulatorReturn

SpecConfiguration == Init /\ [][NextConfiguration]_vars

\* every phase table of up to MaxPhases phases
Tables ==
    UNION { [1 .. n -> [1 .. PWM_PHASE_MAX_WAVE_PER_PWM -> {0, 1}]] : n \in 1 .. MaxPhases }

\* The edge detector: self-stimulation running through the cycle of any phase
\* table, at a speed that keeps the scheduler advancing.
InitEdges ==
    /\ triggerShape \in [version : {0}, wave : Tables]
    /\ triggerEmulatorSignal = [frequency |-> NAN, wave |-> <<>>, phaseIndex |-> 0,
                                periodNt |-> 0, armed |-> FALSE]
    /\ atTriggerVersion = 0
    /\ hasStimPins = FALSE
    /\ hasInitTriggerEmulator = FALSE
    /\ directSelfStimulation = FALSE
    /\ triggerSimulatorRpm = 3000
    /\ operationMode = "FOUR_STROKE_CRANK_SENSOR"
    /\ invertPrimaryTriggerSignal = FALSE
    /\ invertSecondaryTriggerSignal = FALSE
    /\ triggerSimulatorPins = {}
    /\ globalConfigurationVersion = 0
    /\ initCount = 0
    /\ pc = "idle"
    /\ call = NoCall
    /\ lastTick = NoTick

NextEdges ==
    \/ enableTriggerStimulator(FALSE)
    \/ enableTriggerStimulatorReturn
    \/ togglePwmState

SpecEdges == InitEdges /\ [][NextEdges]_vars

\* The global configuration version: every control operation and the tick, on
\* one trigger shape.
NextVersion ==
    \/ \E rpm \in SchedulerRpmValues : SetRpm(rpm)
    \/ \E previousRpm \in SchedulerRpmValues : OnConfigurationChange(previousRpm)
    \/ \E incGlobalConfiguration \in BOOLEAN : enableTriggerStimulator(incGlobalConfiguration)
    \/ enableTriggerStimulatorReturn
    \/ enableExternalTriggerStimulator
    \/ enableExternalTriggerStimulatorReturn
    \/ disableTriggerStimulator
    \/ disableTriggerStimulatorReturn
    \/ togglePwmState

SpecVersion == Init /\ [][NextVersion]_vars


\* ------------------------------------------------------------------- claims
EnableOps == {"enableTriggerStimulator", "enableExternalTriggerStimulator"}

\* the enable operation of the other mode was called while the emulator ran
SwitchedWhileRunning ==
    /\ call.op \in EnableOps
    /\ call.wasInit
    /\ call.wasSelf = (call.op = "enableExternalTriggerStimulator")

\* C1: whatever ticks, shape rebuilds (to more or to fewer phases) and speed
\* changes came before, the index a tick hands to the dispatcher is at least 0
\* and below the phaseCount of the current trigger shape, and the phaseCount a
\* running scheduler divides by is never zero.
C1_IndexInRange ==
    /\ triggerEmulatorSignal.armed => phaseCount(triggerEmulatorSignal.wave) >= 1
    /\ lastTick.fired => lastTick.count >= 1
    /\ lastTick.index # 0 - 1 => 0 <= lastTick.index /\ lastTick.index < lastTick.count

\* a tick dispatched after the shape shrank below the phase index of the run
C1_Witness ==
    lastTick.wrapped /\ lastTick.updated /\ lastTick.index # 0 - 1 /\ lastTick.n = 2

\* C2: a tick that finds the shape's version different from atTriggerVersion
\* takes the shape over in that same tick: the waveform is adopted,
\* atTriggerVersion equals the shape's version and safe.periodNt is -1 before
\* the next index is computed, and the index it dispatches is in the new range.
C2_ReconciledInSameTick ==
    (lastTick.fired /\ lastTick.stale) =>
        /\ lastTick.updated
        /\ lastTick.adopted
        /\ lastTick.caught
        /\ lastTick.invalidated
        /\ lastTick.index # 0 - 1 => lastTick.index < lastTick.count

\* a running scheduler met a new version and dispatched
C2_Witness ==
    lastTick.stale /\ lastTick.n = 2 /\ lastTick.index # 0 - 1 /\ lastTick.count = 2

\* C3, as stated: enabling the other mode while running initialises the
\* scheduler and applies the frequency again.
C3_RestartOnModeSwitch == SwitchedWhileRunning => call.started

\* C3, amended: enabling the other mode while running neither initialises the
\* scheduler nor applies the frequency again; the PwmConfig is left as it was
\* and only directSelfStimulation takes the value of the new mode.
C3_NoRestartOnModeSwitch ==
    SwitchedWhileRunning =>
        /\ ~call.started
        /\ call.timingKept
        /\ call.rpmM.isNaN
        /\ call.done => directSelfStimulation = (call.op = "enableTriggerStimulator")

\* self-stimulation was switched to external stimulation while ticks advanced
C3_Witness ==
    /\ SwitchedWhileRunning
    /\ call.op = "enableExternalTriggerStimulator"
    /\ call.done
    /\ lastTick.n = 2

\* C4: enableTriggerStimulator called while initialised and in self-stimulation
\* does not initialise the scheduler, does not apply the frequency and leaves
\* the PwmConfig (phase index included) and atTriggerVersion as they were; and
\* between two disableTriggerStimulator calls the scheduler is initialised at
\* most once.
C4_EnableSelfIdempotent ==
    /\ initCount <= 1
    /\ (call.op = "enableTriggerStimulator" /\ call.wasInit /\ call.wasSelf) =>
           ~call.started /\ call.timingKept /\ call.rpmM.isNaN

\* a second enableTriggerStimulator returned while the run was past its start
C4_Witness ==
    /\ call.op = "enableTriggerStimulator"
    /\ call.wasInit
    /\ call.wasSelf
    /\ call.done
    /\ triggerEmulatorSignal.phaseIndex # 0

\* C5: disableTriggerStimulator leaves the scheduler stopped, the emulator not
\* initialised and self-stimulation off; the enableTriggerStimulator that
\* follows applies the frequency of the configured rpm, initialises the
\* scheduler once, starts the run at phase index 0, and the first index
\* dispatched is the one a first start dispatches on that waveform.
C5_DisableThenFullRestart ==
    /\ (call.op = "disableTriggerStimulator" /\ call.done) =>
           /\ ~triggerEmulatorSignal.armed
           /\ ~hasInitTriggerEmulator
           /\ ~directSelfStimulation
    /\ (call.op = "enableTriggerStimulator" /\ ~call.wasInit) =>
           /\ call.started
           /\ initCount = 1
           /\ triggerEmulatorSignal.armed
           /\ hasInitTriggerEmulator
           /\ FloatEq(triggerEmulatorSignal.frequency, rPerSecond(triggerSimulatorRpm))
           /\ lastTick.n = 0 => triggerEmulatorSignal.phaseIndex = 0
           /\ triggerEmulatorSignal.phaseIndex < phaseCount(triggerEmulatorSignal.wave)
    /\ (lastTick.n = 1 /\ lastTick.index # 0 - 1) => lastTick.index = 1 % lastTick.count

\* after a run that had advanced was disabled, self-stimulation was enabled
\* again and its first tick forwarded an edge
C5_Witness ==
    /\ call.op = "enableTriggerStimulator"
    /\ call.restarted
    /\ call.done
    /\ globalConfigurationVersion > 0
    /\ lastTick.n = 1
    /\ lastTick.sink = "shaft"
    /\ lastTick.events # {}

\* C6: once disableTriggerStimulator has returned, and until the next enable
\* operation is entered, no tick fires: nothing is forwarded to the shaft
\* position input and no output pin is driven.
C6_NoTickAfterDisable ==
    (pc = "idle" /\ ~hasInitTriggerEmulator) =>
        ~lastTick.fired /\ lastTick.sink = "none" /\ ~triggerEmulatorSignal.armed

\* a run in self-stimulation with output pins and a positive frequency was
\* disabled
C6_Witness ==
    /\ call.op = "disableTriggerStimulator"
    /\ call.done
    /\ call.wasInit
    /\ call.wasSelf
    /\ hasStimPins
    /\ FloatPositive(triggerEmulatorSignal.frequency)
    /\ triggerEmulatorSignal.phaseIndex # 0

\* C7: the frequency applied to the scheduler is NaN or greater than zero,
\* whatever rpm values setTriggerEmulatorRPM was given.
C7_FrequencyNeverNegative ==
    triggerEmulatorSignal.frequency.isNaN \/ FloatPositive(triggerEmulatorSignal.frequency)

\* multiplier(mode) as the specification tabulates it
SpecMultiplier(mode) ==
    CASE mode = "FOUR_STROKE_CRANK_SENSOR" -> Float(1, 1)
      [] mode = "FOUR_STROKE_CAM_SENSOR" -> Float(1, 2)
      [] mode = "FOUR_STROKE_SYMMETRICAL_CRANK_SENSOR" ->
             Float(SYMMETRICAL_CRANK_SENSOR_DIVIDER, 2)
      [] mode = "FOUR_STROKE_THREE_TIMES_CRANK_SENSOR" ->
             Float(SYMMETRICAL_THREE_TIMES_CRANK_SENSOR_DIVIDER, 2)
      [] mode = "FOUR_STROKE_TWELVE_TIMES_CRANK_SENSOR" ->
             Float(SYMMETRICAL_TWELVE_TIMES_CRANK_SENSOR_DIVIDER, 2)
      [] OTHER -> Float(1, 1)

\* C8: setTriggerEmulatorRPM(rpm) stores rpm as the configured rpm and sets the
\* frequency to NaN when rpm is 0, in every operation mode, and otherwise to
\* exactly rpm * multiplier / 60: 100 for rpm 6000 and 50 for rpm 3000 with
\* multiplier 1.
C8_FrequencyOfRpm ==
    call.op = "setTriggerEmulatorRPM" =>
        LET f == triggerEmulatorSignal.frequency
            m == SpecMultiplier(operationMode)
        IN /\ triggerSimulatorRpm = call.arg
           /\ call.arg = 0 => f.isNaN
           /\ call.arg # 0 =>
                  ~f.isNaN /\ f.num * 60 * m.den = call.arg * m.num * f.den
           /\ (call.arg = 6000 /\ operationMode = "FOUR_STROKE_CRANK_SENSOR") =>
                  FloatEq(f, Float(100, 1))
           /\ (call.arg = 3000 /\ operationMode = "FOUR_STROKE_CRANK_SENSOR") =>
                  FloatEq(f, Float(50, 1))

\* rpm 3000 was set with the cam sensor's multiplier 0.5: 25 cycles per second
C8_Witness ==
    /\ call.op = "setTriggerEmulatorRPM"
    /\ call.arg = 3000
    /\ operationMode = "FOUR_STROKE_CAM_SENSOR"
    /\ FloatEq(triggerEmulatorSignal.frequency, Float(25, 1))

\* C9: getRpmMultiplier has a value for every operation mode: 1 for the crank
\* sensor, the wheel's divider / 2 for the symmetrical, three times and twelve
\* times crank sensors, 0.5 for the cam sensor, 1 for any other mode; it is
\* greater than zero; and that is the multiplier every frequency is made with.
C9_MultiplierTable ==
    /\ \A mode \in OperationModes :
           /\ FloatEq(getRpmMultiplier(mode), SpecMultiplier(mode))
           /\ FloatPositive(getRpmMultiplier(mode))
    /\ ~call.rpmM.isNaN =>
           FloatEq(call.rpmM, SpecMultiplier(operationMode)) /\ FloatPositive(call.rpmM)

\* a frequency was made in the twelve times crank sensor mode, another in a
\* mode getRpmMultiplier does not name
C9_Witness ==
    /\ ~call.rpmM.isNaN
    /\ operationMode = "FOUR_STROKE_TWELVE_TIMES_CRANK_SENSOR"
    /\ FloatEq(call.rpmM, Float(12, 1))

\* C10: onConfigurationChangeRpmEmulatorCallback(previous) leaves the frequency,
\* the phase index, the run mode and the global configuration version as they
\* were when the configured rpm equals previous's; when they differ, the
\* frequency is the one setTriggerEmulatorRPM makes of the configured rpm.
C10_ConfigurationChange ==
    call.op = "onConfigurationChange" =>
        /\ call.inc = 0
        /\ directSelfStimulation = call.wasSelf
        /\ hasInitTriggerEmulator = call.wasInit
        /\ call.same => call.timingKept /\ call.rpmM.isNaN
        /\ ~call.same =>
               FloatEq(triggerEmulatorSignal.frequency, rPerSecond(triggerSimulatorRpm))

\* the callback returned early although the frequency at hand was not the one
\* of the configured rpm in the current operation mode
C10_Witness ==
    /\ call.op = "onConfigurationChange"
    /\ call.same
    /\ triggerSimulatorRpm # 0
    /\ ~FloatEq(triggerEmulatorSignal.frequency, rPerSecond(triggerSimulatorRpm))


\* the phase before phase i of a cycle of n phases
Before(i, n) == IF i = 0 THEN n - 1 ELSE i - 1

\* the level of channel c of waveform w at phase i
Level(w, c, i) == w[i + 1][c + 1]

\* channel c changes its level on entering phase i of waveform w
Changes(w, c, i) == Level(w, c, i) # Level(w, c, Before(i, Len(w)))

\* the tick's reading of the invert flag that applies to channel c
Inverted(c) ==
    \/ c = 0 /\ lastTick.invertPrimary
    \/ c = 1 /\ lastTick.invertSecondary

\* C11: in self-stimulation a tick forwards an event for channel c exactly
\* when the level of c at the current index differs from its level at the
\* previous index, and the event is rising exactly when the level is high,
\* flipped by the primary invert flag on channel 0 and by the secondary invert
\* flag on channel 1 and by nothing on any other channel; the four-phase
\* quadrature table without inversion yields channel 0 rising, channel 1
\* rising, channel 0 falling, channel 1 falling on entering phases 1, 2, 3, 0
\* and nothing else.
C11_EdgesForwarded ==
    (lastTick.self /\ lastTick.index # 0 - 1) =>
        /\ lastTick.forwarded
        /\ \A c \in Channels :
              /\ Changes(lastTick.wave, c, lastTick.index)
                    <=> (\E e \in lastTick.events : e[1] = c)
              /\ \A e \in lastTick.events :
                    e[1] = c =>
                        e[2] = ((Level(lastTick.wave, c, lastTick.index) = 1) # Inverted(c))
        /\ (lastTick.wave = Wave4 /\ ~lastTick.invertPrimary /\ ~lastTick.invertSecondary) =>
              lastTick.events = CASE lastTick.index = 1 -> {<<0, TRUE>>}
                                  [] lastTick.index = 2 -> {<<1, TRUE>>}
                                  [] lastTick.index = 3 -> {<<0, FALSE>>}
                                  [] lastTick.index = 0 -> {<<1, FALSE>>}

\* a self-stimulation tick with the primary invert flag set entered phase 1 of
\* the two-phase table: channel 0 went high and is reported falling, channel 2
\* went low and is reported falling
C11_Witness ==
    /\ lastTick.self
    /\ lastTick.invertPrimary
    /\ lastTick.wave = Wave2
    /\ lastTick.index = 1
    /\ lastTick.events = {<<0, FALSE>>, <<2, FALSE>>}

\* C12: in external stimulation a tick forwards no event to the shaft position
\* input, and with pins bound it drives every output to the raw level the
\* table holds at the current index, whatever the invert flags are.
C12_ExternalDrivesRawLevels ==
    (lastTick.index # 0 - 1 /\ ~lastTick.self) =>
        /\ ~lastTick.forwarded
        /\ lastTick.events = {}
        /\ lastTick.pins =>
              /\ lastTick.written
              /\ \A c \in Channels :
                    lastTick.levels[c] = Level(lastTick.wave, c, lastTick.index)

\* an external-stimulation tick with both invert flags set entered phase 2 of
\* the quadrature table and drove channels 0 and 1 high
C12_Witness ==
    /\ lastTick.index = 2
    /\ ~lastTick.self
    /\ lastTick.written
    /\ lastTick.invertPrimary
    /\ lastTick.invertSecondary
    /\ lastTick.wave = Wave4
    /\ lastTick.levels[0] = 1
    /\ lastTick.levels[1] = 1

\* the events of a self-stimulation tick, from the waveform, the index and the
\* invert flags it read
ExpectedEvents ==
    { <<c, (Level(lastTick.wave, c, lastTick.index) = 1) # Inverted(c)>> :
        c \in { k \in Channels : Changes(lastTick.wave, k, lastTick.index) } }

\* C13: startTriggerEmulatorPins recomputes hasStimPins from false: it is
\* false while the call is at its loop, and once the call has returned it is
\* true exactly when some channel holds a valid pin, whatever it was before;
\* while it is false an external-stimulation tick writes no pin and forwards
\* nothing, and a self-stimulation tick forwards the events it forwards with
\* pins bound.
C13_HasStimPins ==
    /\ (call.op = "startTriggerEmulatorPins" /\ ~call.done) => ~hasStimPins
    /\ (call.op = "startTriggerEmulatorPins" /\ call.done) =>
          (hasStimPins <=> (triggerSimulatorPins \cap Channels) # {})
    /\ (lastTick.index # 0 - 1 /\ ~lastTick.self /\ ~lastTick.pins) =>
          /\ ~lastTick.written
          /\ ~lastTick.forwarded
          /\ lastTick.events = {}
          /\ lastTick.levels = NoLevels
    /\ (lastTick.index # 0 - 1 /\ lastTick.self) =>
          /\ ~lastTick.written
          /\ lastTick.events = ExpectedEvents

\* startTriggerEmulatorPins found no valid pin and cleared hasStimPins, and a
\* self-stimulation tick without pins forwarded edges
C13_Witness ==
    /\ call.op = "startTriggerEmulatorPins"
    /\ call.done
    /\ ~hasStimPins
    /\ lastTick.self
    /\ ~lastTick.pins
    /\ lastTick.events # {}

\* the control operations that increment the global configuration version;
\* enableTriggerStimulator does when incGlobalConfiguration is set
Incrementing(c) ==
    \/ c.op \in {"enableExternalTriggerStimulator", "disableTriggerStimulator"}
    \/ c.op = "enableTriggerStimulator" /\ c.incArg

\* C14: the global configuration version never decreases: every step leaves it
\* as it is, except the completion of enableExternalTriggerStimulator, of
\* disableTriggerStimulator and of enableTriggerStimulator(true), each of which
\* adds exactly one, whether the emulator was initialized or not;
\* setTriggerEmulatorRPM, onConfigurationChangeRpmEmulatorCallback,
\* enableTriggerStimulator(false) and the tick leave it unchanged.
C14_VersionCounter ==
    [][globalConfigurationVersion' - globalConfigurationVersion =
         IF pc # "idle" /\ pc' = "idle" /\ Incrementing(call') THEN 1 ELSE 0]_vars

\* disableTriggerStimulator completed on an emulator that was not running and
\* the version went up by one, after an enableTriggerStimulator(false) that
\* had left it at zero
C14_Witness ==
    /\ call.op = "disableTriggerStimulator"
    /\ call.done
    /\ ~call.wasInit
    /\ call.inc = 1
    /\ globalConfigurationVersion = 2

\* a step of the timer callback
Ticked ==
    /\ triggerEmulatorSignal.armed
    /\ lastTick'.fired
    /\ call' = call
    /\ pc' = pc
    /\ triggerShape' = triggerShape
    /\ triggerSimulatorRpm' = triggerSimulatorRpm
    /\ Config' = Config

EdgePhases(w, c) == { i \in 0 .. (phaseCount(w) - 1) : needEvent(i, w, c) }

\* C16: for every phase table and every channel, the number of phases at
\* which needEvent is true is even, and over the cycle as many of them are
\* rising (the level is high) as falling (the level is low).
C16_EdgesBalanced ==
    \A c \in Channels :
        LET w == triggerShape.wave
            rising == { i \in EdgePhases(w, c) : getChannelState(w, c, i) = 1 }
            falling == { i \in EdgePhases(w, c) : getChannelState(w, c, i) = 0 }
        IN /\ Cardinality(EdgePhases(w, c)) % 2 = 0
           /\ Cardinality(rising) = Cardinality(falling)

\* a three-phase table on which channel 0 has one rising and one falling
\* edge, and a self-stimulation tick that forwarded the rising one
C16_Witness ==
    /\ phaseCount(triggerShape.wave) = 3
    /\ Cardinality(EdgePhases(triggerShape.wave, 0)) = 2
    /\ lastTick.self
    /\ lastTick.wave = triggerShape.wave
    /\ <<0, TRUE>> \in lastTick.events

\* C17: for a table of n >= 1 phases and 0 <= i < n, getPreviousIndex(i, n)
\* is (i - 1 + n) mod n, lies in [0, n) and wraps phase 0 to phase n - 1; on
\* a one-phase table the previous index is the current one, needEvent is
\* false for every channel and no tick forwards an edge.
C17_PreviousIndex ==
    LET w == triggerShape.wave
        n == phaseCount(w)
    IN /\ n >= 1
       /\ \A i \in 0 .. (n - 1) :
             /\ getPreviousIndex(i, n) = (i - 1 + n) % n
             /\ getPreviousIndex(i, n) \in 0 .. (n - 1)
             /\ getPreviousIndex(i, n) = Before(i, n)
       /\ n = 1 =>
             /\ getPreviousIndex(0, n) = 0
             /\ \A c \in Channels : ~needEvent(0, w, c)
       /\ (lastTick.index # 0 - 1 /\ Len(lastTick.wave) = 1) => lastTick.events = {}

\* self-stimulation ticked twice on a one-phase table whose channel 0 is high
\* and forwarded nothing
C17_Witness ==
    /\ phaseCount(triggerShape.wave) = 1
    /\ getChannelState(triggerShape.wave, 0, 0) = 1
    /\ lastTick.self
    /\ lastTick.index = 0
    /\ lastTick.n = 2
    /\ lastTick.wave = triggerShape.wave
    /\ lastTick.events = {}

\* C18: a tick routes to at most one sink, chosen by the one reading of
\* directSelfStimulation it makes: it forwards edges to the shaft position
\* input exactly when it read self-stimulation, it writes pins only when it
\* did not, and never both, also when it fires in the middle of an enable or
\* disable call.
C18_OneSinkPerTick ==
    /\ ~(lastTick.forwarded /\ lastTick.written)
    /\ lastTick.events # {} => ~lastTick.written
    /\ lastTick.index # 0 - 1 =>
          /\ lastTick.forwarded <=> lastTick.self
          /\ lastTick.written => ~lastTick.self

\* ticks fired in the middle of an enableTriggerStimulator call that had
\* started the scheduler: the last one wrote the pins and forwarded nothing
C18_Witness ==
    /\ pc = "enableSelf"
    /\ call.op = "enableTriggerStimulator"
    /\ call.started
    /\ lastTick.written
    /\ ~lastTick.forwarded
    /\ lastTick.n = 2

\* C19: when enableTriggerStimulator starts the scheduler with pins bound, no
\* tick since that start writes a pin, whether it fires before the call has
\* returned or after.
C19_NoPinWriteInSelfStimulation ==
    (call.op = "enableTriggerStimulator" /\ call.started /\ hasStimPins) =>
        ~lastTick.written

\* the frequency is the undefined one exactly when the configured RPM is 0
UndefinedIffRpmZero ==
    triggerEmulatorSignal.frequency.isNaN <=> triggerSimulatorRpm = 0

\* C19, as amended: once enableTriggerStimulator has returned, a tick writes
\* no pin and hands the phase it dispatches to the shaft position input.
C19_NoPinWriteAfterReturn ==
    [][(Ticked /\ call.op = "enableTriggerStimulator" /\ call.done) =>
           /\ ~lastTick'.written
           /\ lastTick'.index # 0 - 1 => lastTick'.forwarded]_vars

\* enableTriggerStimulator started the scheduler with pins bound and has
\* returned, and a tick since read the pins bound and forwarded to the shaft
\* position input
C19_Witness ==
    /\ call.op = "enableTriggerStimulator"
    /\ call.done
    /\ call.started
    /\ hasStimPins
    /\ lastTick.pins
    /\ lastTick.forwarded
    /\ ~lastTick.written

\* C20: once a frequency has been applied, after every completed control
\* operation the frequency is the undefined one exactly when the configured
\* RPM is 0.
C20_UndefinedIffRpmZero ==
    (call.applied /\ pc = "idle") => UndefinedIffRpmZero

\* C20, as amended: the same, as long as every configuration change
\* notification came with the RPM the configuration held before it was written.
C20_UndefinedIffRpmZeroFaithful ==
    (call.applied /\ pc = "idle" /\ ~call.misreported) => UndefinedIffRpmZero

\* a configuration change from a running speed to 0, notified with the speed
\* held before, paused the scheduler
C20_Witness ==
    /\ call.op = "onConfigurationChange"
    /\ call.done
    /\ ~call.misreported
    /\ ~call.same
    /\ call.arg # 0
    /\ triggerSimulatorRpm = 0
    /\ triggerEmulatorSignal.frequency.isNaN
    /\ hasInitTriggerEmulator

====
